---- MODULE Spec2Model ----
(***************************************************************************)
(* Model of milli/src/update/del_add.rs (the DelAdd tag codec,             *)
(* into_del_add_obkv, del_add_from_two_obkvs) and of                       *)
(* MetadataV2::load_dump in meilisearch-http's dump loader v2.             *)
(*                                                                         *)
(* An obkv record is a sequence of <<key, value>> pairs in writing order.  *)
(* A nested DelAdd record is a sequence of <<tag byte, value>> pairs.      *)
(* Every write to an obkv writer and every call into a store is fallible   *)
(* (they return io::Result / anyhow::Result): its outcome is chosen        *)
(* nondeterministically.                                                   *)
(***************************************************************************)
EXTENDS Integers, Sequences, FiniteSets, TLC

\* ---------------------------------------------------------------- bounds
MaxKey == 3
MaxVal == 2
MaxLen == 3
MaxRawLen == 2
MaxRawKey == 3
MaxIndexes == 3

\* largest value of a u8
ByteMax == 255

VARIABLES op, deletion, addition, reader, flag_deletion, flag_addition,
          i, j, value_buffer, writer, handed, steps, rejected, result,
          tag, array, decoded,
          n_indexes, ld_pc, idx, started, succeeded

obkvVars == <<deletion, addition, reader, flag_deletion, flag_addition,
              i, j, value_buffer, writer, handed, steps>>
codecVars == <<tag, array, decoded>>
loadVars == <<n_indexes, ld_pc, idx, started, succeeded>>
vars == <<op, obkvVars, rejected, result, codecVars, loadVars>>

\* ---------------------------------------------------------------- data
Keys == 1..MaxKey
Vals == 1..MaxVal
Bytes == 0..ByteMax

SeqsUpTo(S, n) == UNION {[1..m -> S] : m \in 0..n}

KeysOf(r) == [x \in 1..Len(r) |-> r[x][1]]

StrictlyAscending(s) == \A x, y \in 1..Len(s) : x < y => s[x] < s[y]

\* records an obkv writer can have produced: strictly ascending, unique keys
SortedRecords == {r \in SeqsUpTo(Keys \X Vals, MaxLen) : StrictlyAscending(KeysOf(r))}

\* any sequence of entries a reader can be handed: keys in any order, repeated
\* or not (the values play no part in the order of the merge; one value is used)
RawKeys == 1..MaxRawKey

RawRecords == SeqsUpTo(RawKeys \X {1}, MaxRawLen)

\* ---------------------------------------------------------------- DelAdd
DelAdd == {"Deletion", "Addition"}

NoTag == "none"
NoByte == 0 - 1
Unreachable == "unreachable"

to_be_bytes(t) == IF t = "Deletion" THEN 0 ELSE 1

from_be_bytes_lenient(b) == IF b = 0 THEN "Deletion" ELSE "Addition"

from_be_bytes(b) ==
    CASE b = 0 -> "Deletion"
      [] b = 1 -> "Addition"
      [] OTHER -> Unreachable

\* ---------------------------------------------------------------- results
\* `?` on an io::Result / anyhow::Result: an error returns from the function
try_ignore(ok) == "running"

try(ok) == IF ok THEN "running" ELSE "Err"

\* `.unwrap()`: an error panics
unwrap(ok) == IF ok THEN "running" ELSE "Panic"

\* ---------------------------------------------------------------- buffers
clear_noop(buf) == buf

clear(buf) == <<>>

\* KvWriter::insert on a writer that accepts the write
insert(buf, k, v) == Append(buf, <<k, v>>)

\* nested record of into_del_add_obkv for one value
annotate_else_if(buf, value, del, add) ==
    IF del THEN insert(buf, to_be_bytes("Deletion"), value)
    ELSE IF add THEN insert(buf, to_be_bytes("Addition"), value)
    ELSE buf

annotate_nested(buf, value, del, add) ==
    LET b1 == IF del THEN insert(buf, to_be_bytes("Deletion"), value) ELSE buf
    IN IF add THEN insert(b1, to_be_bytes("Addition"), value) ELSE b1

\* nested records of the three arms of del_add_from_two_obkvs
left_nested(buf, v) == insert(buf, to_be_bytes("Deletion"), v)

right_nested_as_deletion(buf, v) == insert(buf, to_be_bytes("Deletion"), v)

right_nested(buf, v) == insert(buf, to_be_bytes("Addition"), v)

both_nested_swapped(buf, dv, av) ==
    insert(insert(buf, to_be_bytes("Addition"), av), to_be_bytes("Deletion"), dv)

both_nested(buf, dv, av) ==
    insert(insert(buf, to_be_bytes("Deletion"), dv), to_be_bytes("Addition"), av)

\* ---------------------------------------------------------------- merge join
cmp_no_equal(b, u) == IF b <= u THEN "Less" ELSE "Greater"

\* |(b, _), (u, _)| b.cmp(u)
cmp(b, u) == IF b < u THEN "Less" ELSE IF b = u THEN "Equal" ELSE "Greater"

Eob(kind, k, dv, av, ni, nj) ==
    [kind |-> kind, k |-> k, dv |-> dv, av |-> av, ni |-> ni, nj |-> nj]

\* variants of the merge join with a wrong cursor advance
merge_join_by_equal_left_only(left, right, li, rj) ==
    IF li > Len(left) /\ rj > Len(right) THEN Eob("None", 0, 0, 0, li, rj)
    ELSE IF rj > Len(right) THEN Eob("Left", left[li][1], left[li][2], 0, li + 1, rj)
    ELSE IF li > Len(left) THEN Eob("Right", right[rj][1], 0, right[rj][2], li, rj + 1)
    ELSE LET ord == cmp(left[li][1], right[rj][1]) IN
         CASE ord = "Less" -> Eob("Left", left[li][1], left[li][2], 0, li + 1, rj)
           [] ord = "Greater" -> Eob("Right", right[rj][1], 0, right[rj][2], li, rj + 1)
           [] OTHER -> Eob("Both", left[li][1], left[li][2], right[rj][2], li + 1, rj)

merge_join_by_less_drops_right(left, right, li, rj) ==
    IF li > Len(left) /\ rj > Len(right) THEN Eob("None", 0, 0, 0, li, rj)
    ELSE IF rj > Len(right) THEN Eob("Left", left[li][1], left[li][2], 0, li + 1, rj)
    ELSE IF li > Len(left) THEN Eob("Right", right[rj][1], 0, right[rj][2], li, rj + 1)
    ELSE LET ord == cmp(left[li][1], right[rj][1]) IN
         CASE ord = "Less" -> Eob("Left", left[li][1], left[li][2], 0, li + 1, rj + 1)
           [] ord = "Greater" -> Eob("Right", right[rj][1], 0, right[rj][2], li, rj + 1)
           [] OTHER -> Eob("Both", left[li][1], left[li][2], right[rj][2], li + 1, rj + 1)

\* the next item of merge_join_by(deletion.iter(), addition.iter(), cmp)
\* with the left cursor at li and the right cursor at rj
merge_join_by(left, right, li, rj) ==
    IF li > Len(left) /\ rj > Len(right) THEN Eob("None", 0, 0, 0, li, rj)
    ELSE IF rj > Len(right) THEN Eob("Left", left[li][1], left[li][2], 0, li + 1, rj)
    ELSE IF li > Len(left) THEN Eob("Right", right[rj][1], 0, right[rj][2], li, rj + 1)
    ELSE LET ord == cmp(left[li][1], right[rj][1]) IN
         CASE ord = "Less" -> Eob("Left", left[li][1], left[li][2], 0, li + 1, rj)
           [] ord = "Greater" -> Eob("Right", right[rj][1], 0, right[rj][2], li, rj + 1)
           [] OTHER -> Eob("Both", left[li][1], left[li][2], right[rj][2], li + 1, rj + 1)

\* ---------------------------------------------------------------- initial states
InitObkvIdle ==
    /\ deletion = <<>> /\ addition = <<>> /\ reader = <<>>
    /\ flag_deletion = FALSE /\ flag_addition = FALSE

InitCodecIdle == tag = NoTag /\ array = NoByte /\ decoded = NoTag

InitLoadIdle ==
    /\ n_indexes = 0 /\ ld_pc = "idle" /\ idx = 1
    /\ started = <<>> /\ succeeded = <<>>

InitCommon ==
    /\ i = 1 /\ j = 1 /\ value_buffer = <<>> /\ writer = <<>> /\ handed = <<>>
    /\ steps = 0 /\ rejected = FALSE /\ result = "running"

InitMerge(Records) ==
    /\ op = "merge"
    /\ deletion \in Records /\ addition \in Records
    /\ reader = <<>> /\ flag_deletion = FALSE /\ flag_addition = FALSE
    /\ InitCodecIdle /\ InitLoadIdle

InitAnnotate ==
    /\ op = "annotate"
    /\ reader \in SortedRecords
    /\ flag_deletion \in BOOLEAN /\ flag_addition \in BOOLEAN
    /\ deletion = <<>> /\ addition = <<>>
    /\ InitCodecIdle /\ InitLoadIdle

InitCodec ==
    /\ op = "codec"
    /\ \/ tag \in DelAdd /\ array = NoByte
       \/ tag = NoTag /\ array \in Bytes
    /\ decoded = NoTag
    /\ InitObkvIdle /\ InitLoadIdle

InitLoad ==
    /\ op = "load_dump"
    /\ n_indexes \in 0..MaxIndexes
    /\ ld_pc = "uuid" /\ idx = 1 /\ started = <<>> /\ succeeded = <<>>
    /\ InitObkvIdle /\ InitCodecIdle

InitWith(Records) ==
    /\ InitCommon
    /\ \/ InitMerge(Records)
       \/ InitAnnotate
       \/ InitCodec
       \/ InitLoad

\* the merger is called on records that satisfy its precondition
Init == InitWith(SortedRecords)

\* the merger is called on any pair of entry sequences
InitAny == InitWith(RawRecords)

\* ---------------------------------------------------------------- obkv actions
\* One iteration of a `for` loop that builds `nested` in value_buffer and
\* inserts <<k, nested>> into the outer writer.  fail names the first write
\* the sink rejects; onValue, onInner, onOuter are what the code does with
\* the error of the nested insert, of finish/into_inner, of the outer insert.
LoopBody(k, nested, nInserts, ni, nj, onValue, onInner, onOuter) ==
    \E fail \in {"none", "value_insert", "into_inner", "outer_insert"} :
        /\ fail = "value_insert" => nInserts > 0
        /\ i' = ni /\ j' = nj
        /\ steps' = steps + 1
        /\ rejected' = (rejected \/ fail # "none")
        /\ value_buffer' = IF fail = "value_insert" THEN clear(value_buffer) ELSE nested
        /\ handed' = IF fail \in {"none", "outer_insert"} THEN Append(handed, k) ELSE handed
        /\ writer' = IF fail = "none" THEN insert(writer, k, nested) ELSE writer
        /\ result' = CASE fail = "value_insert" -> onValue
                       [] fail = "into_inner" -> onInner
                       [] fail = "outer_insert" -> onOuter
                       [] OTHER -> "running"

\* writer.finish()
Finish ==
    \E ok \in BOOLEAN :
        /\ result' = IF ok THEN "Ok" ELSE "Err"
        /\ rejected' = (rejected \/ ~ok)

AnnotateStep ==
    /\ op = "annotate" /\ result = "running"
    /\ i <= Len(reader)
    /\ LoopBody(reader[i][1],
                annotate_nested(clear(value_buffer), reader[i][2], flag_deletion, flag_addition),
                (IF flag_deletion THEN 1 ELSE 0) + (IF flag_addition THEN 1 ELSE 0),
                i + 1, j, try(FALSE), try(FALSE), try(FALSE))
    /\ UNCHANGED <<op, deletion, addition, reader, flag_deletion, flag_addition,
                   codecVars, loadVars>>

AnnotateFinish ==
    /\ op = "annotate" /\ result = "running"
    /\ i > Len(reader)
    /\ Finish
    /\ UNCHANGED <<op, obkvVars, codecVars, loadVars>>

MergeLeft ==
    /\ op = "merge" /\ result = "running"
    /\ LET eob == merge_join_by(deletion, addition, i, j) IN
        /\ eob.kind = "Left"
        /\ LoopBody(eob.k, left_nested(clear(value_buffer), eob.dv), 1, eob.ni, eob.nj,
                    unwrap(FALSE), try(FALSE), unwrap(FALSE))
    /\ UNCHANGED <<op, deletion, addition, reader, flag_deletion, flag_addition,
                   codecVars, loadVars>>

MergeRight ==
    /\ op = "merge" /\ result = "running"
    /\ LET eob == merge_join_by(deletion, addition, i, j) IN
        /\ eob.kind = "Right"
        /\ LoopBody(eob.k, right_nested(clear(value_buffer), eob.av), 1, eob.ni, eob.nj,
                    unwrap(FALSE), try(FALSE), unwrap(FALSE))
    /\ UNCHANGED <<op, deletion, addition, reader, flag_deletion, flag_addition,
                   codecVars, loadVars>>

MergeBoth ==
    /\ op = "merge" /\ result = "running"
    /\ LET eob == merge_join_by(deletion, addition, i, j) IN
        /\ eob.kind = "Both"
        /\ LoopBody(eob.k, both_nested(clear(value_buffer), eob.dv, eob.av), 2, eob.ni, eob.nj,
                    unwrap(FALSE), try(FALSE), unwrap(FALSE))
    /\ UNCHANGED <<op, deletion, addition, reader, flag_deletion, flag_addition,
                   codecVars, loadVars>>

MergeFinish ==
    /\ op = "merge" /\ result = "running"
    /\ merge_join_by(deletion, addition, i, j).kind = "None"
    /\ Finish
    /\ UNCHANGED <<op, obkvVars, codecVars, loadVars>>

\* ---------------------------------------------------------------- codec actions
Encode ==
    /\ op = "codec" /\ result = "running"
    /\ tag # NoTag /\ array = NoByte
    /\ array' = to_be_bytes(tag)
    /\ UNCHANGED <<op, obkvVars, rejected, result, tag, decoded, loadVars>>

Decode ==
    /\ op = "codec" /\ result = "running"
    /\ array # NoByte
    /\ decoded' = from_be_bytes(array)
    /\ result' = IF decoded' = Unreachable THEN "Panic" ELSE "Ok"
    /\ UNCHANGED <<op, obkvVars, rejected, tag, array, loadVars>>

\* ---------------------------------------------------------------- load_dump actions
\* a call `f(...)?` recorded as step s
LoadStep(s, next_pc) ==
    \E ok \in BOOLEAN :
        /\ started' = Append(started, s)
        /\ succeeded' = IF ok THEN Append(succeeded, s) ELSE succeeded
        /\ result' = try(ok)
        /\ rejected' = (rejected \/ ~ok)
        /\ ld_pc' = next_pc

LoadUuidStore ==
    /\ op = "load_dump" /\ result = "running" /\ ld_pc = "uuid"
    /\ LoadStep(<<"uuid_store", 0>>, "updates")
    /\ UNCHANGED <<op, obkvVars, codecVars, n_indexes, idx>>

LoadUpdateStore ==
    /\ op = "load_dump" /\ result = "running" /\ ld_pc = "updates"
    /\ LoadStep(<<"update_store", 0>>, "read_dir")
    /\ UNCHANGED <<op, obkvVars, codecVars, n_indexes, idx>>

ReadDir ==
    /\ op = "load_dump" /\ result = "running" /\ ld_pc = "read_dir"
    /\ \E ok \in BOOLEAN :
        /\ result' = try(ok)
        /\ rejected' = (rejected \/ ~ok)
    /\ ld_pc' = "indexes"
    /\ UNCHANGED <<op, obkvVars, codecVars, n_indexes, idx, started, succeeded>>

\* `let index = index?;` fails on an unreadable directory entry
LoadIndexEntryError ==
    /\ op = "load_dump" /\ result = "running" /\ ld_pc = "indexes"
    /\ idx <= n_indexes
    /\ result' = try(FALSE)
    /\ rejected' = TRUE
    /\ UNCHANGED <<op, obkvVars, codecVars, loadVars>>

LoadIndex ==
    /\ op = "load_dump" /\ result = "running" /\ ld_pc = "indexes"
    /\ idx <= n_indexes
    /\ LoadStep(<<"index", idx>>, "indexes")
    /\ idx' = idx + 1
    /\ UNCHANGED <<op, obkvVars, codecVars, n_indexes>>

LoadDumpReturn ==
    /\ op = "load_dump" /\ result = "running" /\ ld_pc = "indexes"
    /\ idx > n_indexes
    /\ result' = "Ok"
    /\ UNCHANGED <<op, obkvVars, rejected, codecVars, loadVars>>

\* ---------------------------------------------------------------- specification
Next ==
    \/ AnnotateStep
    \/ AnnotateFinish
    \/ MergeLeft
    \/ MergeRight
    \/ MergeBoth
    \/ MergeFinish
    \/ Encode
    \/ Decode
    \/ LoadUuidStore
    \/ LoadUpdateStore
    \/ ReadDir
    \/ LoadIndexEntryError
    \/ LoadIndex
    \/ LoadDumpReturn

Spec == Init /\ [][Next]_vars

SpecAny == InitAny /\ [][Next]_vars

\* fairness: the loops and the call sequence are synchronous, straight-line code
\* with no suspension point, so an enabled step is eventually taken
FairSpec == Spec /\ WF_vars(Next)

\* ---------------------------------------------------------------- properties
KeySet(r) == {r[x][1] : x \in 1..Len(r)}

Lookup(r, k) == r[CHOOSE x \in 1..Len(r) : r[x][1] = k][2]

RECURSIVE IsSubseq(_, _)
IsSubseq(s, t) ==
    IF s = <<>> THEN TRUE
    ELSE IF t = <<>> THEN FALSE
    ELSE IF Head(s) = Head(t) THEN IsSubseq(Tail(s), Tail(t))
    ELSE IsSubseq(s, Tail(t))

IsPrefix(s, t) == Len(s) <= Len(t) /\ SubSeq(t, 1, Len(s)) = s

\* the nested record the merge is to write for key k
ExpectedMerged(k) ==
    (IF k \in KeySet(deletion) THEN <<<<0, Lookup(deletion, k)>>>> ELSE <<>>)
    \o (IF k \in KeySet(addition) THEN <<<<1, Lookup(addition, k)>>>> ELSE <<>>)

\* C1: on sorted, key-unique D and A a successful del_add_from_two_obkvs
\* writes exactly the keys of keys(D) \cup keys(A), one entry per key, and the
\* nested record of key k is {Deletion: D[k]} and/or {Addition: A[k]}
\* according to the inputs that hold k.
C1_MergeUnion ==
    (op = "merge" /\ result = "Ok") =>
        /\ KeySet(writer) = KeySet(deletion) \cup KeySet(addition)
        /\ Len(writer) = Cardinality(KeySet(deletion) \cup KeySet(addition))
        /\ \A x \in 1..Len(writer) : writer[x][2] = ExpectedMerged(writer[x][1])

\* Scenario 1 of the spec with old = 1, new = 2
C1_Witness ==
    /\ op = "merge" /\ result = "Ok"
    /\ deletion = <<<<1, 1>>, <<3, 1>>>>
    /\ addition = <<<<2, 2>>, <<3, 2>>>>
    /\ writer = << <<1, <<<<0, 1>>>>>>, <<2, <<<<1, 2>>>>>>, <<3, <<<<0, 1>>, <<1, 2>>>>>> >>

\* C2: on sorted, key-unique inputs every key handed to the outer writer is
\* strictly greater than all keys handed before it, so the keys written are
\* strictly ascending without duplicates.
C2_HandedAscending ==
    op = "merge" =>
        /\ \A x, y \in 1..Len(handed) : x < y => handed[x] < handed[y]
        /\ \A x, y \in 1..Len(writer) : x < y => writer[x][1] < writer[y][1]

C2_Witness ==
    /\ op = "merge" /\ result = "Ok"
    /\ Len(handed) = 3
    /\ KeySet(deletion) \cap KeySet(addition) # {}
    /\ KeySet(deletion) \ KeySet(addition) # {}
    /\ KeySet(addition) \ KeySet(deletion) # {}

\* C3: a successful into_del_add_obkv(R, deletion, addition) writes the keys of
\* R in the order of R, and the nested record of each key has one entry per
\* set flag, Deletion first, each with the key's value; none when both flags
\* are false.
C3_AnnotatePreserves ==
    (op = "annotate" /\ result = "Ok") =>
        /\ KeysOf(writer) = KeysOf(reader)
        /\ \A x \in 1..Len(writer) :
            /\ Len(writer[x][2]) = (IF flag_deletion THEN 1 ELSE 0) + (IF flag_addition THEN 1 ELSE 0)
            /\ writer[x][2] = (IF flag_deletion THEN <<<<0, reader[x][2]>>>> ELSE <<>>)
                              \o (IF flag_addition THEN <<<<1, reader[x][2]>>>> ELSE <<>>)

C3_Witness ==
    /\ op = "annotate" /\ result = "Ok"
    /\ ~flag_deletion /\ ~flag_addition
    /\ Len(reader) = 2 /\ Len(writer) = 2
    /\ writer[1][2] = <<>> /\ writer[2][2] = <<>>

\* C4: to_be_bytes maps Deletion to 0 and Addition to 1 (one to one),
\* decoding an encoded tag gives the tag back, and decoding a byte other
\* than 0 and 1 panics instead of giving a tag.
C4_TagCodec ==
    /\ to_be_bytes("Deletion") = 0 /\ to_be_bytes("Addition") = 1
    /\ op = "codec" =>
        /\ (tag # NoTag /\ array # NoByte) => array = (IF tag = "Deletion" THEN 0 ELSE 1)
        /\ (tag # NoTag /\ decoded # NoTag) => (decoded = tag /\ result = "Ok")
        /\ (decoded # NoTag /\ array \notin {0, 1}) => (decoded \notin DelAdd /\ result = "Panic")
        /\ (decoded # NoTag /\ array \in {0, 1}) => (decoded \in DelAdd /\ result = "Ok")
        /\ result = "Ok" => decoded = (IF array = 0 THEN "Deletion" ELSE "Addition")

C4_Witness ==
    /\ op = "codec" /\ tag = "Addition" /\ array = 1 /\ decoded = "Addition" /\ result = "Ok"

\* C5: a write the sink rejects during del_add_from_two_obkvs comes back to
\* the caller as an error value; the merge never panics.
C5_NoTrap == op = "merge" => result # "Panic"

\* C6: every nested record written by into_del_add_obkv or
\* del_add_from_two_obkvs has at most two entries, tags 0 and 1 only, in
\* strictly ascending order.
C6_NestedTagOrder ==
    op \in {"merge", "annotate"} =>
        \A n \in {writer[x][2] : x \in 1..Len(writer)} \cup {value_buffer} :
            /\ Len(n) <= 2
            /\ \A x \in 1..Len(n) : n[x][1] \in {0, 1}
            /\ \A x, y \in 1..Len(n) : x < y => n[x][1] < n[y][1]

C6_Witness ==
    /\ op = "merge" /\ Len(writer) >= 1
    /\ \E x \in 1..Len(writer) : Len(writer[x][2]) = 2

\* C7: on sorted, key-unique inputs each iteration of the merge loop advances
\* the side with the strictly smaller head alone, both sides on equal heads,
\* and the remaining side once the other is exhausted; the loop runs at most
\* |D| + |A| iterations, ends, has consumed both inputs when it returns Ok, and
\* returns Ok unless the sink rejected a write.
C7_Advance ==
    (op = "merge" /\ steps' = steps + 1) =>
        IF i <= Len(deletion) /\ j <= Len(addition)
        THEN /\ deletion[i][1] < addition[j][1] => (i' = i + 1 /\ j' = j)
             /\ deletion[i][1] > addition[j][1] => (i' = i /\ j' = j + 1)
             /\ deletion[i][1] = addition[j][1] => (i' = i + 1 /\ j' = j + 1)
        ELSE IF i <= Len(deletion) THEN i' = i + 1 /\ j' = j
        ELSE i' = i /\ j' = j + 1

C7_Bounded ==
    op = "merge" =>
        /\ steps <= Len(deletion) + Len(addition)
        /\ result = "Ok" => (i = Len(deletion) + 1 /\ j = Len(addition) + 1)
        /\ result \in {"Err", "Panic"} => rejected
        /\ i <= Len(deletion) + 1 /\ j <= Len(addition) + 1

C7_MergeTerminates ==
    /\ []C7_Bounded
    /\ [][C7_Advance]_vars
    /\ <>(result # "running")

C7_Witness ==
    /\ op = "merge" /\ result = "Ok" /\ ~rejected
    /\ Len(deletion) = 2 /\ Len(addition) = 2 /\ steps = 3

C9_ScratchCleared ==
    /\ op = "merge" =>
        /\ \A x \in 1..Len(writer) :
            LET k == writer[x][1]
                n == writer[x][2]
            IN /\ Len(n) = (IF k \in KeySet(deletion) THEN 1 ELSE 0)
                           + (IF k \in KeySet(addition) THEN 1 ELSE 0)
               /\ \A y \in 1..Len(n) :
                    \/ n[y][1] = 0 /\ k \in KeySet(deletion) /\ n[y][2] = Lookup(deletion, k)
                    \/ n[y][1] = 1 /\ k \in KeySet(addition) /\ n[y][2] = Lookup(addition, k)
        /\ (Len(writer) > 0 /\ result \in {"running", "Ok"})
                => value_buffer = writer[Len(writer)][2]
    /\ op = "annotate" =>
        /\ \A x \in 1..Len(writer) :
            /\ Len(writer[x][2]) = (IF flag_deletion THEN 1 ELSE 0) + (IF flag_addition THEN 1 ELSE 0)
            /\ \A y \in 1..Len(writer[x][2]) : writer[x][2][y][2] = reader[x][2]
        /\ (Len(writer) > 0 /\ result \in {"running", "Ok"})
                => value_buffer = writer[Len(writer)][2]

C9_Witness ==
    /\ op = "merge" /\ Len(writer) = 3
    /\ Len(writer[1][2]) = 2 /\ Len(writer[2][2]) = 1 /\ Len(writer[3][2]) = 1
    /\ writer[1][2][1][2] # writer[2][2][1][2]

\* the steps of load_dump on a dump with n index entries
FullOrder(n) ==
    <<<<"uuid_store", 0>>, <<"update_store", 0>>>> \o [x \in 1..n |-> <<"index", x>>]

\* C10: load_dump starts the uuid store load, the update store load and the
\* index loads in that order, starts nothing after a step that failed and
\* returns Err then, and returns Ok only after every step has succeeded.
C10_LoadOrder ==
    op = "load_dump" =>
        /\ IsPrefix(started, FullOrder(n_indexes))
        /\ IsPrefix(succeeded, started)
        /\ Len(started) <= Len(succeeded) + 1
        /\ Len(started) > Len(succeeded) => result = "Err"
        /\ result = "Ok" => succeeded = FullOrder(n_indexes)
        /\ result = "Ok" => ~rejected

C10_Witness ==
    /\ op = "load_dump" /\ result = "Err" /\ n_indexes = 3
    /\ started = <<<<"uuid_store", 0>>, <<"update_store", 0>>, <<"index", 1>>>>
    /\ succeeded = <<<<"uuid_store", 0>>, <<"update_store", 0>>>>
====
